---- MODULE Spec2Model ----
(***************************************************************************)
(* State-machine model of the PN532 custom chip (src/src/main.c): the      *)
(* inbound frame parser (on_i2c_write), the byte-by-byte transmitter and   *)
(* the virtual card triggers (on_i2c_read), the delay timer (on_timer),    *)
(* the command dispatcher (process_command) and the key check              *)
(* (authenticate_sector).  One action per callback; a callback runs to     *)
(* completion in one step.                                                 *)
(***************************************************************************)
EXTENDS Integers, Sequences, FiniteSets, TLC

(***************************************************************************)
(* Program constants (main.c lines 7-50), in decimal.                      *)
(***************************************************************************)
PN532_COMMAND_GETFIRMWAREVERSION == 2
PN532_COMMAND_SAMCONFIGURATION == 20
PN532_COMMAND_INLISTPASSIVETARGET == 74
PN532_COMMAND_INDATAEXCHANGE == 64
PN532_COMMAND_MIFARE_READ == 48
PN532_COMMAND_MIFARE_WRITE == 160
MIFARE_AUTH_A == 96
MIFARE_AUTH_B == 97

PN532_RESPONSE_GETFIRMWAREVERSION == PN532_COMMAND_GETFIRMWAREVERSION + 1
PN532_RESPONSE_SAMCONFIGURATION == PN532_COMMAND_SAMCONFIGURATION + 1
PN532_RESPONSE_INLISTPASSIVETARGET == PN532_COMMAND_INLISTPASSIVETARGET + 1
PN532_RESPONSE_INDATAEXCHANGE == PN532_COMMAND_INDATAEXCHANGE + 1

PN532_PREAMBLE == 0
PN532_STARTCODE1 == 0
PN532_STARTCODE2 == 255
PN532_POSTAMBLE == 0
PN532_HOSTTOPN532 == 212
PN532_PN532TOHOST == 213
PN532_ACK_PACKET_SIZE == 6
PN532_ACK_PACKET == <<0, 0, 255, 0, 255, 0>>
READY_BYTE == 1

CARD_TYPE_MIFARE_CLASSIC == 0
CARD_STATE_ABSENT == 0
CARD_STATE_PRESENT == 1
UID_SIZE_MIFARE_CLASSIC == 4
MAX_VIRTUAL_CARDS == 2
MIFARE_1K_SIZE == 1024
MIFARE_CLASSIC_BLOCK_SIZE == 16
MIFARE_CLASSIC_BLOCKS_PER_SECTOR == 4
MIFARE_CLASSIC_SECTOR_COUNT == 16
COMMAND_DATA_SIZE == 64
RESPONSE_DATA_SIZE == 64
UID_ARRAY_SIZE == 7
KEY_SIZE == 6
KEY_B_OFFSET == 10

\* uint8_t arithmetic
U8(n) == n % 256

\* the sum of the elements of s (by halves: frames are up to 261 bytes long)
RECURSIVE Sum(_)
Sum(s) ==
    IF s = <<>> THEN 0
    ELSE IF Len(s) = 1 THEN s[1]
    ELSE LET h == Len(s) \div 2
         IN Sum(SubSeq(s, 1, h)) + Sum(SubSeq(s, h + 1, Len(s)))

(***************************************************************************)
(* Virtual cards: initialize_virtual_card.                                 *)
(***************************************************************************)
CardUid(card_number) ==
    IF card_number = 1 THEN <<222, 173, 190, 239>> ELSE <<202, 254, 186, 190>>

\* byte i (0..15) of a freshly initialised sector trailer
TrailerDefault(i) ==
    CASE i < 6 -> 255
      [] i = 6 -> 255
      [] i = 7 -> 7
      [] i = 8 -> 128
      [] i = 9 -> 105
      [] OTHER -> 255

InitialMemory(card_number) ==
    [o \in 0..(MIFARE_1K_SIZE - 1) |->
        IF o % (MIFARE_CLASSIC_BLOCKS_PER_SECTOR * MIFARE_CLASSIC_BLOCK_SIZE)
              >= (MIFARE_CLASSIC_BLOCKS_PER_SECTOR - 1) * MIFARE_CLASSIC_BLOCK_SIZE
        THEN TrailerDefault(o % MIFARE_CLASSIC_BLOCK_SIZE)
        ELSE IF o < 4 THEN CardUid(card_number)[o + 1] ELSE 0]

initialize_virtual_card(card_number) ==
    [state |-> CARD_STATE_ABSENT,
     card_type |-> CARD_TYPE_MIFARE_CLASSIC,
     uid_length |-> UID_SIZE_MIFARE_CLASSIC,
     uid |-> [i \in 0..(UID_ARRAY_SIZE - 1) |->
                 IF i < 4 THEN CardUid(card_number)[i + 1] ELSE 0],
     memory |-> InitialMemory(card_number)]

(***************************************************************************)
(* The host: what it writes on the bus.  A transaction is the byte         *)
(* sequence of one I2C write; the host works through a script of           *)
(* transactions, and bus reads and the timer interleave between them.      *)
(***************************************************************************)
\* a well-formed host-to-PN532 frame around body = <<command, payload...>>
Frame(body) ==
    <<PN532_PREAMBLE, PN532_STARTCODE1, PN532_STARTCODE2,
      Len(body) + 1, U8(256 - (Len(body) + 1)), PN532_HOSTTOPN532>>
    \o body
    \o <<U8(256 - U8(PN532_HOSTTOPN532 + Sum(body))), PN532_POSTAMBLE>>

Rep(n, b) == [i \in 1..n |-> b]

\* a frame with length byte L and a matching length checksum around body, the
\* data checksum matching body
RawFrame(L, body) ==
    <<PN532_PREAMBLE, PN532_STARTCODE1, PN532_STARTCODE2, L, U8(256 - L), PN532_HOSTTOPN532>>
    \o body
    \o <<U8(256 - U8(PN532_HOSTTOPN532 + Sum(body))), PN532_POSTAMBLE>>

BadAt(f, k) == [f EXCEPT ![k] = U8(f[k] + 1)]
BadLcs(f) == BadAt(f, 5)
BadDcs(f) == BadAt(f, Len(f) - 1)
BadTfi(f) == BadAt(f, 6)
BadPostamble(f) == BadAt(f, Len(f))
BadStart(f) == BadAt(f, 3)
Partial(f, n) == SubSeq(f, 1, n)

\* the factory key of every sector (0xFF x 6)
DEFAULT_KEY == Rep(KEY_SIZE, 255)

TxFirmware == Frame(<<PN532_COMMAND_GETFIRMWAREVERSION>>)
\* 0x12 is no opcode of the dispatcher
TxUnsupported == Frame(<<18>>)
TxInList == Frame(<<PN532_COMMAND_INLISTPASSIVETARGET, 1, 0>>)
TxRead(b) == Frame(<<PN532_COMMAND_INDATAEXCHANGE, 1, PN532_COMMAND_MIFARE_READ, b>>)
TxWriteData(b, data) ==
    Frame(<<PN532_COMMAND_INDATAEXCHANGE, 1, PN532_COMMAND_MIFARE_WRITE, b>> \o data)
TxWrite(b) == TxWriteData(b, Rep(MIFARE_CLASSIC_BLOCK_SIZE, 170))
TxAuthA(b, key) ==
    Frame(<<PN532_COMMAND_INDATAEXCHANGE, 1, MIFARE_AUTH_A, b>> \o key)

TxAuthB(b, key) ==
    Frame(<<PN532_COMMAND_INDATAEXCHANGE, 1, MIFARE_AUTH_B, b>> \o key)
TxInListBaud(baud) == Frame(<<PN532_COMMAND_INLISTPASSIVETARGET, 1, baud>>)
\* InDataExchange with a Mifare sub-command byte and a block number
TxSubCommand(sub, b) == Frame(<<PN532_COMMAND_INDATAEXCHANGE, 1, sub, b>>)
\* a key that differs from the factory key in its last byte only
WRONG_KEY == [DEFAULT_KEY EXCEPT ![KEY_SIZE] = 254]

\* a sector trailer with key A 01..06 and key B 0B..10
NewTrailer == [i \in 1..MIFARE_CLASSIC_BLOCK_SIZE |-> i]
NewKeyA == SubSeq(NewTrailer, 1, KEY_SIZE)
NewKeyB == SubSeq(NewTrailer, KEY_B_OFFSET + 1, KEY_B_OFFSET + KEY_SIZE)

\* the host writes at most this many transactions in one run
MaxTransactions == 2

ScriptPool ==
    { <<TxFirmware, TxFirmware>>,
      <<TxUnsupported, Partial(TxFirmware, 7)>>,
      <<TxRead(0)>>,
      <<TxAuthA(4, DEFAULT_KEY), TxRead(4)>>,
      <<TxWrite(1), TxRead(1)>>,
      <<TxInList>>,
      <<BadLcs(TxFirmware), TxFirmware>>,
      <<BadDcs(TxFirmware), TxFirmware>>,
      <<BadLcs(TxFirmware), BadDcs(TxFirmware), TxFirmware>>,
      <<TxFirmware, TxUnsupported, TxFirmware>> }

Scripts == {s \in ScriptPool : Len(s) <= MaxTransactions}

\* The pools below are the scripts of the other specifications, each about one
\* part of the program; a script of theirs has at most this many transactions.
\* The scripts of ScriptPool and of the Session, Error, Framing, Auth, InList,
\* Pending and Garbage pools keep every array index of the program in range;
\* RangePool and LengthPool hold the ones that do not.
MaxSessionTransactions == 3

\* Mifare sessions with a failed authentication

SessionPool ==
    { <<TxAuthA(4, WRONG_KEY), TxRead(4)>>,
      <<TxAuthA(0, DEFAULT_KEY), TxAuthA(4, WRONG_KEY), TxRead(0)>>,
      <<BadDcs(TxRead(0)), BadLcs(TxFirmware), TxAuthA(4, WRONG_KEY), TxRead(4)>> }

SessionScripts == {s \in SessionPool : Len(s) <= MaxSessionTransactions}

\* commands that are answered with an error status (0xC0 is no sub-command of
\* the dispatcher, 1 is no supported baud-rate indicator)
ErrorPool ==
    { <<TxWrite(4)>>,
      <<TxRead(4)>>,
      <<TxInListBaud(1)>>,
      <<TxSubCommand(192, 0)>>,
      <<TxWrite(1), TxWrite(4)>>,
      <<TxAuthA(4, DEFAULT_KEY), TxRead(0)>>,
      <<BadDcs(TxFirmware), BadLcs(TxFirmware), TxWrite(1), TxWrite(4)>> }

ErrorScripts == {s \in ErrorPool : Len(s) <= MaxSessionTransactions}

\* an accepted frame followed, before any bus read, by a frame that is rejected
FramingPool ==
    { <<TxFirmware, BadDcs(TxInList)>>,
      <<TxFirmware, BadPostamble(TxInList)>>,
      <<TxFirmware, BadTfi(TxInList)>>,
      <<TxFirmware, BadStart(TxInList)>>,
      <<TxFirmware, BadLcs(TxInList)>>,
      <<TxRead(0), BadDcs(TxWrite(1))>> }

FramingScripts == {s \in FramingPool : Len(s) <= MaxSessionTransactions}

\* authentication with the factory keys, and with the keys of a trailer written
\* before
AuthPool ==
    { <<TxAuthA(0, DEFAULT_KEY), TxRead(0)>>,
      <<TxAuthB(7, DEFAULT_KEY)>>,
      <<TxAuthA(0, WRONG_KEY)>>,
      <<TxAuthA(64, DEFAULT_KEY)>>,
      <<TxWriteData(3, NewTrailer), TxAuthA(3, NewKeyA)>>,
      <<TxWriteData(3, NewTrailer), TxAuthB(3, NewKeyB)>>,
      <<TxWriteData(3, NewTrailer), TxAuthB(3, NewKeyA)>>,
      <<TxWriteData(3, NewTrailer), TxAuthA(0, DEFAULT_KEY)>>,
      <<BadDcs(TxAuthA(0, WRONG_KEY)), BadLcs(TxFirmware),
        TxWriteData(3, NewTrailer), TxAuthB(3, NewKeyB)>> }

AuthScripts == {s \in AuthPool : Len(s) <= MaxSessionTransactions}

\* target detection, with a supported and an unsupported baud-rate indicator
InListPool ==
    { <<TxInList>>,
      <<TxInListBaud(1)>>,
      <<TxInList, TxInListBaud(1)>>,
      <<TxInListBaud(2), TxInList>>,
      <<BadDcs(TxInList), BadLcs(TxInList), TxInList, TxInListBaud(1)>> }

InListScripts == {s \in InListPool : Len(s) <= MaxSessionTransactions}

\* block numbers past the last block of a card (63), after an Authenticate
\* that names the same block
RangePool ==
    { <<TxAuthA(64, DEFAULT_KEY), TxWrite(64)>>,
      <<TxAuthA(64, DEFAULT_KEY), TxRead(64)>>,
      <<TxAuthA(255, DEFAULT_KEY), TxRead(255)>> }

RangeScripts == {s \in RangePool : Len(s) <= MaxSessionTransactions}

\* GetFirmwareVersion frames with the length bytes 0, 1, 2, 65 (the longest
\* that fits command_data), 66 and 255, each followed by the opcode and as
\* many payload bytes 0x01 as the parser takes for that length
LengthPool ==
    { <<RawFrame(L, <<PN532_COMMAND_GETFIRMWAREVERSION>>)>> : L \in {0, 1, 2} }
    \cup { <<RawFrame(L, <<PN532_COMMAND_GETFIRMWAREVERSION>> \o Rep(L - 2, 1))>> :
              L \in {COMMAND_DATA_SIZE + 1, COMMAND_DATA_SIZE + 2, 255} }

LengthScripts == {s \in LengthPool : Len(s) <= MaxSessionTransactions}

\* a command with a response of 13 bytes on the wire followed by one with a
\* response of 10 bytes (a Read that is refused)
PendingPool ==
    { <<TxFirmware, TxRead(4)>> }

PendingScripts == {s \in PendingPool : Len(s) <= MaxSessionTransactions}

\* an Authenticate and a Read of block 0 (the block that holds the UID, so the
\* two cards differ in it), of the Authenticate's sector and of another one, and
\* an Authenticate and a Write; the card triggers are free to put the other card
\* in the field between the two
SwapPool ==
    { <<TxAuthA(0, DEFAULT_KEY), TxRead(0)>>,
      <<TxAuthB(4, DEFAULT_KEY), TxRead(0)>>,
      <<TxAuthA(0, DEFAULT_KEY), TxWrite(1)>>,
      <<BadDcs(TxFirmware), BadLcs(TxFirmware), TxAuthA(0, DEFAULT_KEY), TxRead(0)>> }

SwapScripts == {s \in SwapPool : Len(s) <= MaxSessionTransactions}

\* garbage in front of a valid frame: at most MaxGarbage bytes, each 0x00, 0x55
\* or 0xFF, and the frame, in one bus write
MaxGarbage == 2
GarbageBytes == {0, 85, 255}
Garbage == UNION {[1..n -> GarbageBytes] : n \in 0..MaxGarbage}
GarbageScripts == {<<g \o TxInList>> : g \in Garbage}

VARIABLES
    chip,                   \* chip_state_t (communication state, cards, session)
    ack_index,              \* static in on_i2c_read
    response_index,         \* static in on_i2c_read
    frame_state,            \* statics in on_i2c_write
    frame_length,
    frame_length_checksum,
    frame_data_index,
    frame_checksum,
    pin_irq,                \* level of the IRQ pin: "HIGH" / "LOW"
    timer_armed,            \* timer_start called and the timer has not fired yet
    host,                   \* [todo, cur]: transactions to write, bytes left of the current one
    last,                   \* the last bus event and what it returned
    rx_frame,               \* bytes the parser consumed since it left WaitPreamble
    rx_saved,               \* command, command_data and command_length as they were when
                            \* the parser last took a byte in WaitPreamble
    acc_cmd,                \* opcode of the most recently accepted frame (-1: none yet)
    acc_reads,              \* bus reads since that frame was accepted (capped)
    tx_log,                 \* bytes returned by reads since a response was last queued
    auth_hist,              \* the two most recent Authenticate sub-commands processed,
                            \* latest first: [sector, status]
    auth_card,              \* [on, card]: the card authenticated, active_card_index when
                            \* the latest Authenticate sub-command was processed, if it
                            \* replied 0x00 (-1: it replied 0x01, or none yet); recorded
                            \* only in the specifications that start with on = TRUE
    build,                  \* what the build does with a store past the end of an array:
                            \* "unknown" until the first such store, then "layout" or
                            \* "dropped"
    field_reset             \* "clean" / "with_card": the reset trigger was sampled set (with
                            \* a card trigger clear / set) and no card trigger since; else "no"

statics == <<ack_index, response_index, frame_state, frame_length,
             frame_length_checksum, frame_data_index, frame_checksum>>
observed == <<last, rx_frame, rx_saved, acc_cmd, acc_reads, tx_log, auth_hist, auth_card,
              field_reset>>
vars == <<chip, statics, pin_irq, timer_armed, host, build, observed>>

NoEvent == [ev |-> "none", byte |-> 0, kind |-> "-", accepted |-> FALSE, processed |-> FALSE]

chip_init ==
    [waiting_for_ack |-> FALSE,
     waiting_for_response |-> FALSE,
     command |-> 0,
     command_data |-> [i \in 0..(COMMAND_DATA_SIZE - 1) |-> 0],
     command_length |-> 0,
     response_data |-> [i \in 0..(RESPONSE_DATA_SIZE - 1) |-> 0],
     response_length |-> 0,
     cards |-> [i \in 0..(MAX_VIRTUAL_CARDS - 1) |-> initialize_virtual_card(i + 1)],
     active_card_index |-> -1,
     last_command |-> 0,
     last_sector |-> 0,
     last_block |-> 0]

InitObserving(scripts, card_observed) ==
    /\ chip = chip_init
    /\ ack_index = 0
    /\ response_index = 0
    /\ frame_state = 0
    /\ frame_length = 0
    /\ frame_length_checksum = 0
    /\ frame_data_index = 0
    /\ frame_checksum = 0
    /\ pin_irq = "HIGH"
    /\ timer_armed = FALSE
    /\ host \in {[todo |-> s, cur |-> <<>>] : s \in scripts}
    /\ last = NoEvent
    /\ rx_frame = <<>>
    /\ rx_saved = <<chip_init.command, chip_init.command_data, chip_init.command_length>>
    /\ acc_cmd = -1
    /\ acc_reads = 0
    /\ tx_log = <<>>
    /\ auth_hist = <<>>
    /\ auth_card = [on |-> card_observed, card |-> -1]
    /\ build = "unknown"
    /\ field_reset = "no"

\* the initial states of a host with one of the scripts; the card authenticated
\* is recorded by SpecSwap only, the one specification that looks at it
InitWith(scripts) == InitObserving(scripts, FALSE)

Init == InitWith(Scripts)
InitSession == InitWith(SessionScripts)
InitErrors == InitWith(ErrorScripts)
InitFraming == InitWith(FramingScripts)
InitGarbage == InitWith(GarbageScripts)
InitInList == InitWith(InListScripts)
InitAuth == InitWith(AuthScripts)
InitRange == InitWith(RangeScripts)
InitLength == InitWith(LengthScripts)
InitPending == InitWith(PendingScripts)
InitSwap == InitObserving(SwapScripts, TRUE)

(***************************************************************************)
(* Layout of chip_state_t from command_data on (lines 76-90): every member  *)
(* up to cards[] is a uint8_t, so they lie back to back; active_card_index  *)
(* is an int, aligned to 4 bytes, with the handles before command_data      *)
(* (pin_t, uint32_t, i2c_dev_t, timer_t) 4 bytes each and the two bools 1   *)
(* byte each.  A store through command_data[i] or cards[a].memory[i] with   *)
(* the index past the end of the array is undefined in C; in a build that   *)
(* makes the store, it lands on the member at that address.                 *)
(***************************************************************************)
CARD_HEADER_SIZE == 1 + UID_ARRAY_SIZE + 1 + 1
CARD_SIZE == CARD_HEADER_SIZE + MIFARE_1K_SIZE
OFF_COMMAND_LENGTH == COMMAND_DATA_SIZE
OFF_RESPONSE_DATA == OFF_COMMAND_LENGTH + 1
OFF_RESPONSE_LENGTH == OFF_RESPONSE_DATA + RESPONSE_DATA_SIZE
OFF_CARDS == OFF_RESPONSE_LENGTH + 1
OFF_CARDS_END == OFF_CARDS + MAX_VIRTUAL_CARDS * CARD_SIZE
\* command_data is at byte 35 of the struct: 8 handles, 2 bools, command
OFF_STRUCT == 8 * 4 + 2 + 1
OFF_ACTIVE_CARD_INDEX == OFF_CARDS_END + ((4 - ((OFF_STRUCT + OFF_CARDS_END) % 4)) % 4)
OFF_LAST_COMMAND == OFF_ACTIVE_CARD_INDEX + 4
OFF_LAST_SECTOR == OFF_LAST_COMMAND + 1
OFF_LAST_BLOCK == OFF_LAST_SECTOR + 1

\* offset of cards[a].memory[0]
MemoryOffset(a) == OFF_CARDS + a * CARD_SIZE + CARD_HEADER_SIZE

\* a 32-bit int as its four bytes (little endian, two's complement) and back
IntBytes(v) ==
    LET low == IF v >= 0 THEN v ELSE (v + 2147483647) + 1   \* the low 31 bits
    IN [k \in 0..3 |->
          IF k < 3 THEN (low \div (256 ^ k)) % 256
          ELSE low \div 16777216 + (IF v >= 0 THEN 0 ELSE 128)]
BytesInt(b) ==
    LET low == b[0] + 256 * b[1] + 65536 * b[2] + 16777216 * (b[3] % 128)
    IN IF b[3] >= 128 THEN (low - 2147483647) - 1 ELSE low

\* the byte at offset pos from command_data, -1 where the model holds no member
Peek(c, pos) ==
    CASE pos < OFF_COMMAND_LENGTH -> c.command_data[pos]
      [] pos = OFF_COMMAND_LENGTH -> c.command_length
      [] pos >= OFF_RESPONSE_DATA /\ pos < OFF_RESPONSE_LENGTH ->
            c.response_data[pos - OFF_RESPONSE_DATA]
      [] pos = OFF_RESPONSE_LENGTH -> c.response_length
      [] pos >= OFF_CARDS /\ pos < OFF_CARDS_END ->
            LET k == (pos - OFF_CARDS) \div CARD_SIZE
                q == (pos - OFF_CARDS) % CARD_SIZE
            IN CASE q = 0 -> c.cards[k].state
                 [] q >= 1 /\ q <= UID_ARRAY_SIZE -> c.cards[k].uid[q - 1]
                 [] q = UID_ARRAY_SIZE + 1 -> c.cards[k].uid_length
                 [] q = UID_ARRAY_SIZE + 2 -> c.cards[k].card_type
                 [] OTHER -> c.cards[k].memory[q - CARD_HEADER_SIZE]
      [] pos >= OFF_ACTIVE_CARD_INDEX /\ pos < OFF_LAST_COMMAND ->
            IntBytes(c.active_card_index)[pos - OFF_ACTIVE_CARD_INDEX]
      [] pos = OFF_LAST_COMMAND -> c.last_command
      [] pos = OFF_LAST_SECTOR -> c.last_sector
      [] pos = OFF_LAST_BLOCK -> c.last_block
      [] OTHER -> -1

\* c after the byte v is stored at offset pos from command_data (padding and
\* memory outside the struct are not part of the model)
Poke(c, pos, v) ==
    CASE pos < OFF_COMMAND_LENGTH -> [c EXCEPT !.command_data[pos] = v]
      [] pos = OFF_COMMAND_LENGTH -> [c EXCEPT !.command_length = v]
      [] pos >= OFF_RESPONSE_DATA /\ pos < OFF_RESPONSE_LENGTH ->
            [c EXCEPT !.response_data[pos - OFF_RESPONSE_DATA] = v]
      [] pos = OFF_RESPONSE_LENGTH -> [c EXCEPT !.response_length = v]
      [] pos >= OFF_CARDS /\ pos < OFF_CARDS_END ->
            LET k == (pos - OFF_CARDS) \div CARD_SIZE
                q == (pos - OFF_CARDS) % CARD_SIZE
            IN CASE q = 0 -> [c EXCEPT !.cards[k].state = v]
                 [] q >= 1 /\ q <= UID_ARRAY_SIZE -> [c EXCEPT !.cards[k].uid[q - 1] = v]
                 [] q = UID_ARRAY_SIZE + 1 -> [c EXCEPT !.cards[k].uid_length = v]
                 [] q = UID_ARRAY_SIZE + 2 -> [c EXCEPT !.cards[k].card_type = v]
                 [] OTHER -> [c EXCEPT !.cards[k].memory[q - CARD_HEADER_SIZE] = v]
      [] pos >= OFF_ACTIVE_CARD_INDEX /\ pos < OFF_LAST_COMMAND ->
            [c EXCEPT !.active_card_index =
                BytesInt([IntBytes(@) EXCEPT ![pos - OFF_ACTIVE_CARD_INDEX] = v])]
      [] pos = OFF_LAST_COMMAND -> [c EXCEPT !.last_command = v]
      [] pos = OFF_LAST_SECTOR -> [c EXCEPT !.last_sector = v]
      [] pos = OFF_LAST_BLOCK -> [c EXCEPT !.last_block = v]
      [] OTHER -> c

RECURSIVE PokeSeq(_, _, _)
PokeSeq(c, pos, bytes) ==
    IF bytes = <<>> THEN c
    ELSE PokeSeq(Poke(c, pos, Head(bytes)), pos + 1, Tail(bytes))

\* What an access past the end of an array does is not defined by the
\* language.  A build either makes the stores, which then land as laid out
\* above, or drops them; a load from outside the struct yields a byte the
\* model does not know.
Builds == {"layout", "dropped"}
UnknownBytes == {0, 255}

(***************************************************************************)
(* authenticate_sector                                                     *)
(***************************************************************************)
\* faulty variant: the key is compared with key A whatever the key kind
authenticate_sector_KeyAOnly(c, card_index, sector, key) ==
    IF card_index < 0 \/ card_index >= MAX_VIRTUAL_CARDS THEN FALSE
    ELSE IF sector < 0 \/ sector >= MIFARE_CLASSIC_SECTOR_COUNT THEN FALSE
    ELSE LET trailer_block == sector * MIFARE_CLASSIC_BLOCKS_PER_SECTOR
                                + (MIFARE_CLASSIC_BLOCKS_PER_SECTOR - 1)
             trailer_offset == trailer_block * MIFARE_CLASSIC_BLOCK_SIZE
         IN \A i \in 0..(KEY_SIZE - 1) :
                key[i + 1] = c.cards[card_index].memory[trailer_offset + i]

authenticate_sector(c, card_index, sector, key) ==
    IF card_index < 0 \/ card_index >= MAX_VIRTUAL_CARDS THEN FALSE
    ELSE IF sector < 0 \/ sector >= MIFARE_CLASSIC_SECTOR_COUNT THEN FALSE
    ELSE LET trailer_block == sector * MIFARE_CLASSIC_BLOCKS_PER_SECTOR
                                + (MIFARE_CLASSIC_BLOCKS_PER_SECTOR - 1)
             trailer_offset == trailer_block * MIFARE_CLASSIC_BLOCK_SIZE
             stored == IF c.last_command = MIFARE_AUTH_A
                       THEN trailer_offset
                       ELSE trailer_offset + KEY_B_OFFSET
         IN \A i \in 0..(KEY_SIZE - 1) :
                key[i + 1] = c.cards[card_index].memory[stored + i]

(***************************************************************************)
(* process_command                                                         *)
(***************************************************************************)
\* response_data with its first Len(bytes) entries assigned, the rest left as is
RespPut(rd, bytes) ==
    [i \in DOMAIN rd |-> IF i < Len(bytes) THEN bytes[i + 1] ELSE rd[i]]

Respond(c, bytes, len) ==
    [c EXCEPT !.response_data = RespPut(c.response_data, bytes),
              !.response_length = len]

CardInField(c) ==
    /\ c.active_card_index >= 0
    /\ c.cards[c.active_card_index].state = CARD_STATE_PRESENT

GetFirmwareVersion(c) ==
    Respond(c, <<PN532_RESPONSE_GETFIRMWAREVERSION, 50, 1, 6, 7>>, 5)

SAMConfiguration(c) ==
    Respond(c, <<PN532_RESPONSE_SAMCONFIGURATION, 0>>, 2)

\* faulty variant: the baud-rate indicator is not looked at
InListPassiveTarget_AnyBaud(c) ==
    IF CardInField(c)
    THEN LET active_card == c.cards[c.active_card_index]
             n == active_card.uid_length
         IN Respond(c,
                    <<PN532_RESPONSE_INLISTPASSIVETARGET, 1, 1, 0, 4, n>>
                      \o [i \in 1..n |-> active_card.uid[i - 1]]
                      \o <<8>>,
                    7 + n)
    ELSE Respond(c, <<PN532_RESPONSE_INLISTPASSIVETARGET, 0>>, 2)

InListPassiveTarget(c) ==
    LET card_baud_rate == c.command_data[2] IN
    IF CardInField(c)
    THEN LET active_card == c.cards[c.active_card_index]
             n == active_card.uid_length
         IN IF card_baud_rate = 0
            THEN Respond(c,
                         <<PN532_RESPONSE_INLISTPASSIVETARGET, 1, 1, 0, 4, n>>
                           \o [i \in 1..n |-> active_card.uid[i - 1]]
                           \o <<8>>,
                         7 + n)
            ELSE Respond(c, <<PN532_RESPONSE_INLISTPASSIVETARGET, 0, 1>>, 2)
    ELSE Respond(c, <<PN532_RESPONSE_INLISTPASSIVETARGET, 0>>, 2)

\* the "Check authentication" test of the Read and Write sub-commands
SectorGate(sector, last_sector) == sector = last_sector

\* faulty variant: the sector and key kind are recorded only when the key matches
MifareAuth_RecordsOnSuccess(c, mifare_command) ==
    LET block_number == c.command_data[3]
        key == [i \in 1..KEY_SIZE |-> c.command_data[3 + i]]
        sector == block_number \div MIFARE_CLASSIC_BLOCKS_PER_SECTOR
        c1 == [c EXCEPT !.last_command = mifare_command,
                        !.last_block = block_number,
                        !.last_sector = sector]
    IN IF authenticate_sector(c1, c1.active_card_index, sector, key)
       THEN Respond(c1, <<PN532_RESPONSE_INDATAEXCHANGE, 0>>, 2)
       ELSE Respond(c, <<PN532_RESPONSE_INDATAEXCHANGE, 1>>, 2)

MifareAuth(c, mifare_command) ==
    LET block_number == c.command_data[3]
        key == [i \in 1..KEY_SIZE |-> c.command_data[3 + i]]
        sector == block_number \div MIFARE_CLASSIC_BLOCKS_PER_SECTOR
        c1 == [c EXCEPT !.last_command = mifare_command,
                        !.last_block = block_number,
                        !.last_sector = sector]
    IN IF authenticate_sector(c1, c1.active_card_index, sector, key)
       THEN Respond(c1, <<PN532_RESPONSE_INDATAEXCHANGE, 0>>, 2)
       ELSE Respond(c1, <<PN532_RESPONSE_INDATAEXCHANGE, 1>>, 2)

\* the 16 bytes starting at block_offset are inside memory[]
InsideMemory(block_offset) == block_offset + MIFARE_CLASSIC_BLOCK_SIZE <= MIFARE_1K_SIZE

\* memory[o] of card a as the loop of Read loads it; ub.filler stands for a
\* byte from outside the struct
LoadMemory(c, a, o, ub) ==
    IF o < MIFARE_1K_SIZE THEN c.cards[a].memory[o]
    ELSE IF Peek(c, MemoryOffset(a) + o) >= 0 THEN Peek(c, MemoryOffset(a) + o)
    ELSE ub.filler

MifareRead(c, ub) ==
    LET block_number == c.command_data[3]
        sector == block_number \div MIFARE_CLASSIC_BLOCKS_PER_SECTOR
        block_offset == block_number * MIFARE_CLASSIC_BLOCK_SIZE
    IN IF SectorGate(sector, c.last_sector)
       THEN Respond(c,
                    <<PN532_RESPONSE_INDATAEXCHANGE, 0>>
                      \o [i \in 1..MIFARE_CLASSIC_BLOCK_SIZE |->
                             LoadMemory(c, c.active_card_index, block_offset + i - 1, ub)],
                    2 + MIFARE_CLASSIC_BLOCK_SIZE)
       ELSE Respond(c, <<PN532_RESPONSE_INDATAEXCHANGE, 1>>, 2)

\* c after the loop of Write has stored the 16 bytes at memory[block_offset..]
\* of card a
StoreBlock(c, a, block_offset, ub) ==
    IF InsideMemory(block_offset)
    THEN [c EXCEPT !.cards[a].memory =
            [o \in DOMAIN @ |->
                IF o >= block_offset /\ o < block_offset + MIFARE_CLASSIC_BLOCK_SIZE
                THEN c.command_data[4 + (o - block_offset)]
                ELSE @[o]]]
    ELSE IF ub.stores = "layout"
    THEN PokeSeq(c, MemoryOffset(a) + block_offset,
                 [i \in 1..MIFARE_CLASSIC_BLOCK_SIZE |-> c.command_data[3 + i]])
    ELSE c

\* faulty variant: the block is stored before the sector is compared
MifareWrite_StoresBeforeGate(c, ub) ==
    LET block_number == c.command_data[3]
        sector == block_number \div MIFARE_CLASSIC_BLOCKS_PER_SECTOR
        block_offset == block_number * MIFARE_CLASSIC_BLOCK_SIZE
        stored == StoreBlock(c, c.active_card_index, block_offset, ub)
    IN IF SectorGate(sector, c.last_sector)
       THEN Respond(stored, <<PN532_RESPONSE_INDATAEXCHANGE, 0>>, 2)
       ELSE Respond(stored, <<PN532_RESPONSE_INDATAEXCHANGE, 1>>, 2)

MifareWrite(c, ub) ==
    LET block_number == c.command_data[3]
        sector == block_number \div MIFARE_CLASSIC_BLOCKS_PER_SECTOR
        block_offset == block_number * MIFARE_CLASSIC_BLOCK_SIZE
    IN IF SectorGate(sector, c.last_sector)
       THEN Respond(StoreBlock(c, c.active_card_index, block_offset, ub),
                    <<PN532_RESPONSE_INDATAEXCHANGE, 0>>, 2)
       ELSE Respond(c, <<PN532_RESPONSE_INDATAEXCHANGE, 1>>, 2)

InDataExchange(c, ub) ==
    LET mifare_command == c.command_data[2] IN
    IF CardInField(c)
    THEN CASE mifare_command \in {MIFARE_AUTH_A, MIFARE_AUTH_B} -> MifareAuth(c, mifare_command)
           [] mifare_command = PN532_COMMAND_MIFARE_READ -> MifareRead(c, ub)
           [] mifare_command = PN532_COMMAND_MIFARE_WRITE -> MifareWrite(c, ub)
           [] OTHER -> Respond(c, <<PN532_RESPONSE_INDATAEXCHANGE, 1>>, 2)
    ELSE Respond(c, <<PN532_RESPONSE_INDATAEXCHANGE, 1>>, 2)

SupportedCommands ==
    {PN532_COMMAND_GETFIRMWAREVERSION, PN532_COMMAND_SAMCONFIGURATION,
     PN532_COMMAND_INLISTPASSIVETARGET, PN532_COMMAND_INDATAEXCHANGE}

\* c is about to process a Read or Write that passes the sector test for a
\* block outside memory[]
AccessesBeyondMemory(c) ==
    /\ c.command = PN532_COMMAND_INDATAEXCHANGE
    /\ CardInField(c)
    /\ c.command_data[2] \in {PN532_COMMAND_MIFARE_READ, PN532_COMMAND_MIFARE_WRITE}
    /\ SectorGate(c.command_data[3] \div MIFARE_CLASSIC_BLOCKS_PER_SECTOR, c.last_sector)
    /\ ~InsideMemory(c.command_data[3] * MIFARE_CLASSIC_BLOCK_SIZE)

process_command(c, ub) ==
    LET w == [c EXCEPT !.waiting_for_response = TRUE] IN
    CASE c.command = PN532_COMMAND_GETFIRMWAREVERSION -> GetFirmwareVersion(w)
      [] c.command = PN532_COMMAND_SAMCONFIGURATION -> SAMConfiguration(w)
      [] c.command = PN532_COMMAND_INLISTPASSIVETARGET -> InListPassiveTarget(w)
      [] c.command = PN532_COMMAND_INDATAEXCHANGE -> InDataExchange(w, ub)
      [] OTHER -> [w EXCEPT !.waiting_for_response = FALSE]

(***************************************************************************)
(* on_i2c_read                                                             *)
(***************************************************************************)
\* faulty variant: the reset forgets the second card slot
ResetCards_ForgetsSecondCard(c, reset_state) ==
    IF reset_state
    THEN [c EXCEPT !.active_card_index = -1,
                   !.cards[0].state = CARD_STATE_ABSENT]
    ELSE c

\* the reset trigger (lines 218-223)
ResetCards(c, reset_state) ==
    IF reset_state
    THEN [c EXCEPT !.active_card_index = -1,
                   !.cards[0].state = CARD_STATE_ABSENT,
                   !.cards[1].state = CARD_STATE_ABSENT]
    ELSE c

\* faulty variant: placing a card leaves the other card in the field
PlaceCard_KeepsOther(c, i, button) ==
    IF button /\ c.cards[i].state = CARD_STATE_ABSENT
    THEN [c EXCEPT !.cards[i].state = CARD_STATE_PRESENT,
                   !.active_card_index = i]
    ELSE c

\* faulty variant: a card placed in the field starts with no sector authenticated
PlaceCard_ClearsSession(c, i, button) ==
    IF button /\ c.cards[i].state = CARD_STATE_ABSENT
    THEN [c EXCEPT !.cards[i].state = CARD_STATE_PRESENT,
                   !.active_card_index = i,
                   !.cards[1 - i].state = CARD_STATE_ABSENT,
                   !.last_sector = 255,
                   !.last_command = 0]
    ELSE c

\* a card-present trigger for slot i (lines 226-239)
PlaceCard(c, i, button) ==
    IF button /\ c.cards[i].state = CARD_STATE_ABSENT
    THEN [c EXCEPT !.cards[i].state = CARD_STATE_PRESENT,
                   !.active_card_index = i,
                   !.cards[1 - i].state = CARD_STATE_ABSENT]
    ELSE c

UpdateCards(c, card1_state, card2_state, reset_state) ==
    PlaceCard(PlaceCard(ResetCards(c, reset_state), 0, card1_state), 1, card2_state)

\* the acknowledgement branch: the byte, and the command processed once the
\* sixth byte has gone out
AckComplete(idx) == idx >= PN532_ACK_PACKET_SIZE

AckStep(c, idx, ub) ==
    IF AckComplete(idx + 1)
    THEN [byte |-> PN532_ACK_PACKET[idx + 1], kind |-> "ack", ack_index |-> 0,
          chip |-> process_command([c EXCEPT !.waiting_for_ack = FALSE], ub),
          processed |-> TRUE]
    ELSE [byte |-> PN532_ACK_PACKET[idx + 1], kind |-> "ack", ack_index |-> idx + 1,
          chip |-> c, processed |-> FALSE]

ResponseChecksum(c) ==
    U8(256 - U8(PN532_PN532TOHOST
                  + Sum([i \in 1..c.response_length |-> c.response_data[i - 1]])))

\* faulty variant: the frame closes one byte early, the postamble taking the
\* place of the data checksum
ResponseStep_ShortFrame(c, idx) ==
    LET n == c.response_length
        go(b) == [byte |-> b, kind |-> "response", response_index |-> idx + 1, chip |-> c]
    IN CASE idx = 0 -> go(PN532_PREAMBLE)
         [] idx = 1 -> go(PN532_STARTCODE1)
         [] idx = 2 -> go(PN532_STARTCODE2)
         [] idx = 3 -> go(U8(n + 1))
         [] idx = 4 -> go(U8(256 - U8(n + 1)))
         [] idx = 5 -> go(PN532_PN532TOHOST)
         [] idx >= 6 /\ idx < 6 + n -> go(c.response_data[idx - 6])
         [] idx = 6 + n ->
              [byte |-> PN532_POSTAMBLE, kind |-> "response", response_index |-> 0,
               chip |-> [c EXCEPT !.waiting_for_response = FALSE]]
         [] OTHER ->
              [byte |-> READY_BYTE, kind |-> "idle", response_index |-> idx, chip |-> c]

\* the response branch: byte returned at sequence index idx, or no byte when no
\* case of the if-chain matches and the read falls through to the READY byte
ResponseStep(c, idx) ==
    LET n == c.response_length
        go(b) == [byte |-> b, kind |-> "response", response_index |-> idx + 1, chip |-> c]
    IN CASE idx = 0 -> go(PN532_PREAMBLE)
         [] idx = 1 -> go(PN532_STARTCODE1)
         [] idx = 2 -> go(PN532_STARTCODE2)
         [] idx = 3 -> go(U8(n + 1))
         [] idx = 4 -> go(U8(256 - U8(n + 1)))
         [] idx = 5 -> go(PN532_PN532TOHOST)
         [] idx >= 6 /\ idx < 6 + n -> go(c.response_data[idx - 6])
         [] idx = 6 + n -> go(ResponseChecksum(c))
         [] idx = 7 + n ->
              [byte |-> PN532_POSTAMBLE, kind |-> "response", response_index |-> 0,
               chip |-> [c EXCEPT !.waiting_for_response = FALSE]]
         [] OTHER ->
              [byte |-> READY_BYTE, kind |-> "idle", response_index |-> idx, chip |-> c]

\* everything one call of on_i2c_read does, for the sampled attribute values
ReadResult(card1_state, card2_state, reset_state, ub) ==
    LET c == UpdateCards(chip, card1_state, card2_state, reset_state) IN
    IF c.waiting_for_ack
    THEN LET a == AckStep(c, ack_index, ub)
         IN [byte |-> a.byte, kind |-> a.kind, chip |-> a.chip, ack_index |-> a.ack_index,
             response_index |-> response_index, processed |-> a.processed]
    ELSE IF c.waiting_for_response
    THEN LET r == ResponseStep(c, response_index)
         IN [byte |-> r.byte, kind |-> r.kind, chip |-> r.chip, ack_index |-> ack_index,
             response_index |-> r.response_index, processed |-> FALSE]
    ELSE [byte |-> READY_BYTE, kind |-> "idle", chip |-> c, ack_index |-> ack_index,
          response_index |-> response_index, processed |-> FALSE]

\* c has just processed an Authenticate sub-command for the card in the field
AuthProcessed(c) ==
    /\ c.command = PN532_COMMAND_INDATAEXCHANGE
    /\ CardInField(c)
    /\ c.command_data[2] \in {MIFARE_AUTH_A, MIFARE_AUTH_B}

\* tx_log keeps no more than the longest response frame the buffer allows
TxLogCap == RESPONSE_DATA_SIZE + 8

\* A bus read.  The I2C master runs one transaction at a time, so a read comes
\* between two write transactions of the host, never inside one (a frame split
\* over two writes is two transactions).  The three attributes are sampled with
\* every value the simulation can hold.
on_i2c_read ==
    /\ host.cur = <<>>
    /\ \E card1_state \in BOOLEAN, card2_state \in BOOLEAN, reset_state \in BOOLEAN :
       \E ub \in [stores : Builds, filler : UnknownBytes] :
         LET c == UpdateCards(chip, card1_state, card2_state, reset_state)
             beyond == /\ c.waiting_for_ack
                       /\ AckComplete(ack_index + 1)
                       /\ AccessesBeyondMemory(c)
             r == ReadResult(card1_state, card2_state, reset_state, ub)
         IN
           /\ IF beyond
              THEN build = "unknown" \/ ub.stores = build
              ELSE ub = [stores |-> "layout", filler |-> 0]
           /\ build' = IF beyond THEN ub.stores ELSE build
           /\ chip' = r.chip
           /\ ack_index' = r.ack_index
           /\ response_index' = r.response_index
           /\ last' = [ev |-> "read", byte |-> r.byte, kind |-> r.kind,
                       accepted |-> FALSE, processed |-> r.processed]
           /\ acc_reads' = IF acc_cmd >= 0 /\ acc_reads <= PN532_ACK_PACKET_SIZE
                           THEN acc_reads + 1 ELSE acc_reads
           /\ tx_log' = IF r.processed
                        THEN <<>>
                        ELSE IF chip.waiting_for_response /\ Len(tx_log) < TxLogCap
                        THEN Append(tx_log, r.byte)
                        ELSE tx_log
           /\ auth_hist' = IF r.processed /\ AuthProcessed(r.chip)
                           THEN SubSeq(<<[sector |-> r.chip.command_data[3]
                                                       \div MIFARE_CLASSIC_BLOCKS_PER_SECTOR,
                                          status |-> r.chip.response_data[1]]>>
                                       \o auth_hist, 1, IF auth_hist = <<>> THEN 1 ELSE 2)
                           ELSE auth_hist
           /\ auth_card' = IF auth_card.on /\ r.processed /\ AuthProcessed(r.chip)
                           THEN [auth_card EXCEPT !.card =
                                    IF r.chip.response_data[1] = 0
                                    THEN r.chip.active_card_index ELSE -1]
                           ELSE auth_card
           /\ field_reset' = IF reset_state
                             THEN (IF card1_state \/ card2_state THEN "with_card" ELSE "clean")
                             ELSE IF card1_state \/ card2_state THEN "no" ELSE field_reset
    /\ UNCHANGED <<frame_state, frame_length, frame_length_checksum, frame_data_index,
                   frame_checksum, pin_irq, timer_armed, host, rx_frame, rx_saved, acc_cmd>>

(***************************************************************************)
(* on_i2c_write                                                            *)
(***************************************************************************)
\* faulty variant: the length checksum is not checked
LengthChecksumOk_Skipped(len, lcs) == TRUE

LengthChecksumOk(len, lcs) == U8(len + lcs) = 0
DataChecksumOk(sum, dcs) == U8(sum + dcs) = 0

\* the frame is accepted (lines 388-395)
AcceptFrame(c, len) ==
    [c EXCEPT !.command_length = U8(len + 255), !.waiting_for_ack = TRUE]

\* everything one call of on_i2c_write does with the byte data
WriteResult(data, stores) ==
    LET cur == [chip |-> chip, frame_state |-> frame_state, frame_length |-> frame_length,
                frame_length_checksum |-> frame_length_checksum,
                frame_data_index |-> frame_data_index, frame_checksum |-> frame_checksum,
                accepted |-> FALSE]
    IN CASE frame_state = 0 ->
              IF data = PN532_PREAMBLE THEN [cur EXCEPT !.frame_state = 1] ELSE cur
         [] frame_state = 1 ->
              [cur EXCEPT !.frame_state = IF data = PN532_STARTCODE1 THEN 2 ELSE 0]
         [] frame_state = 2 ->
              [cur EXCEPT !.frame_state = IF data = PN532_STARTCODE2 THEN 3 ELSE 0]
         [] frame_state = 3 ->
              [cur EXCEPT !.frame_length = data, !.frame_state = 4]
         [] frame_state = 4 ->
              IF LengthChecksumOk(frame_length, data)
              THEN [cur EXCEPT !.frame_length_checksum = data, !.frame_state = 5,
                               !.frame_data_index = 0, !.frame_checksum = 0]
              ELSE [cur EXCEPT !.frame_length_checksum = data, !.frame_state = 0]
         [] frame_state = 5 ->
              IF data = PN532_HOSTTOPN532
              THEN [cur EXCEPT !.frame_state = 6, !.frame_checksum = data]
              ELSE [cur EXCEPT !.frame_state = 0]
         [] frame_state = 6 ->
              [cur EXCEPT !.chip.command = data, !.chip.command_data[0] = data,
                          !.frame_data_index = 1,
                          !.frame_checksum = U8(frame_checksum + data),
                          !.frame_state = 7]
         [] frame_state = 7 ->
              IF frame_data_index < frame_length - 1
              THEN [cur EXCEPT !.chip = IF frame_data_index < COMMAND_DATA_SIZE
                                          THEN [chip EXCEPT !.command_data[frame_data_index] = data]
                                          ELSE IF stores = "layout"
                                          THEN Poke(chip, frame_data_index, data)
                                          ELSE chip,
                               !.frame_checksum = U8(frame_checksum + data),
                               !.frame_data_index = U8(frame_data_index + 1)]
              ELSE IF DataChecksumOk(frame_checksum, data)
                   THEN [cur EXCEPT !.frame_state = 8]
                   ELSE [cur EXCEPT !.frame_state = 0]
         [] frame_state = 8 ->
              IF data = PN532_POSTAMBLE
              THEN [cur EXCEPT !.chip = AcceptFrame(chip, frame_length),
                               !.accepted = TRUE, !.frame_state = 0]
              ELSE [cur EXCEPT !.frame_state = 0]

\* the byte the host puts on the bus next, and what is left to write after it
HostNext ==
    IF host.cur # <<>>
    THEN [data |-> Head(host.cur), host |-> [host EXCEPT !.cur = Tail(host.cur)]]
    ELSE [data |-> Head(Head(host.todo)),
          host |-> [todo |-> Tail(host.todo), cur |-> Tail(Head(host.todo))]]

on_i2c_write ==
    /\ host.cur # <<>> \/ host.todo # <<>>
    /\ \E stores \in Builds :
       LET h == HostNext
           w == WriteResult(h.data, stores)
           beyond == /\ frame_state = 7
                     /\ frame_data_index < frame_length - 1
                     /\ frame_data_index >= COMMAND_DATA_SIZE
       IN /\ IF beyond THEN build = "unknown" \/ stores = build ELSE stores = "layout"
          /\ build' = IF beyond THEN stores ELSE build
          /\ host' = h.host
          /\ chip' = w.chip
          /\ frame_state' = w.frame_state
          /\ frame_length' = w.frame_length
          /\ frame_length_checksum' = w.frame_length_checksum
          /\ frame_data_index' = w.frame_data_index
          /\ frame_checksum' = w.frame_checksum
          /\ timer_armed' = (timer_armed \/ w.accepted)
          /\ last' = [ev |-> "write", byte |-> h.data, kind |-> "-",
                      accepted |-> w.accepted, processed |-> FALSE]
          /\ rx_frame' = IF frame_state = 0 /\ w.frame_state = 0
                         THEN <<>>
                         ELSE IF frame_state = 0 THEN <<h.data>>
                         ELSE Append(rx_frame, h.data)
          /\ rx_saved' = IF frame_state = 0
                         THEN <<chip.command, chip.command_data, chip.command_length>>
                         ELSE rx_saved
          /\ acc_cmd' = IF w.accepted THEN w.chip.command ELSE acc_cmd
          /\ acc_reads' = IF w.accepted THEN 0 ELSE acc_reads
    /\ UNCHANGED <<ack_index, response_index, pin_irq, tx_log, auth_hist, auth_card,
                   field_reset>>

(***************************************************************************)
(* on_timer                                                                *)
(***************************************************************************)
\* faulty variant: the delay-elapsed event runs the command processor
on_timer_ProcessesCommand ==
    /\ timer_armed
    /\ timer_armed' = FALSE
    /\ pin_irq' = "LOW"
    /\ chip' = process_command(chip, [stores |-> "layout", filler |-> 0])
    /\ last' = [ev |-> "timer", byte |-> 0, kind |-> "-",
                accepted |-> FALSE, processed |-> TRUE]
    /\ UNCHANGED <<statics, host, rx_frame, rx_saved, acc_cmd, acc_reads, tx_log,
                   auth_hist, auth_card, build, field_reset>>

on_timer ==
    /\ timer_armed
    /\ timer_armed' = FALSE
    /\ pin_irq' = "LOW"
    /\ last' = [ev |-> "timer", byte |-> 0, kind |-> "-",
                accepted |-> FALSE, processed |-> FALSE]
    /\ UNCHANGED <<chip, statics, host, rx_frame, rx_saved, acc_cmd, acc_reads, tx_log,
                   auth_hist, auth_card, build, field_reset>>

Next == on_i2c_write \/ on_i2c_read \/ on_timer

Spec == Init /\ [][Next]_vars
SpecSession == InitSession /\ [][Next]_vars
SpecErrors == InitErrors /\ [][Next]_vars
SpecFraming == InitFraming /\ [][Next]_vars
SpecGarbage == InitGarbage /\ [][Next]_vars
SpecInList == InitInList /\ [][Next]_vars
SpecAuth == InitAuth /\ [][Next]_vars
SpecRange == InitRange /\ [][Next]_vars
SpecLength == InitLength /\ [][Next]_vars
SpecSwap == InitSwap /\ [][Next]_vars

\* the host keeps reading the bus: a bus read that changes the state is taken
\* sooner or later
SpecPending == InitPending /\ [][Next]_vars /\ WF_vars(on_i2c_read)

(***************************************************************************)
(* Properties                                                              *)
(***************************************************************************)
BothAbsent(c) ==
    /\ c.cards[0].state = CARD_STATE_ABSENT
    /\ c.cards[1].state = CARD_STATE_ABSENT

\* position in a received frame of the data checksum, for length byte L: the
\* parser always takes a TFI and a command byte, then L - 2 payload bytes
DcsPos(L) == IF L >= 2 THEN 6 + L ELSE 8

LcsHolds(f) == U8(f[4] + f[5]) = 0
DcsHolds(f) == U8(Sum(SubSeq(f, 6, DcsPos(f[4])))) = 0

\* C1: a frame is accepted only if (L + LCS) mod 256 = 0 and TFI + command +
\* payload + DCS is 0 mod 256; a frame failing either check is not accepted and
\* the parser is back in WaitPreamble (frame_state 0) right after the failing byte.
C1_ChecksumsGateAcceptance ==
    /\ last.accepted =>
          /\ Len(rx_frame) = DcsPos(rx_frame[4]) + 1
          /\ LcsHolds(rx_frame)
          /\ DcsHolds(rx_frame)
    /\ (Len(rx_frame) >= 5 /\ ~LcsHolds(rx_frame)) =>
          /\ frame_state = 0
          /\ ~last.accepted
          /\ Len(rx_frame) = 5
    /\ (Len(rx_frame) >= 5 /\ Len(rx_frame) >= DcsPos(rx_frame[4]) /\ ~DcsHolds(rx_frame)) =>
          /\ frame_state = 0
          /\ ~last.accepted

C1_Witness ==
    /\ last.accepted
    /\ Len(rx_frame) >= 9
    /\ chip.waiting_for_ack

\* a Read or Write sub-command has just been processed with a card in the field
ReadOrWriteProcessed ==
    /\ last.processed
    /\ chip.command = PN532_COMMAND_INDATAEXCHANGE
    /\ CardInField(chip)
    /\ chip.command_data[2] \in {PN532_COMMAND_MIFARE_READ, PN532_COMMAND_MIFARE_WRITE}

\* C2 (as claimed): a Read or Write is answered with status 0x00 only if an
\* Authenticate command was processed before and the most recent one targeted the
\* same sector; before any Authenticate, every Read and Write is answered 0x01.
C2_StatusOkOnlyAfterAuthenticate ==
    (ReadOrWriteProcessed /\ chip.response_data[1] = 0) =>
        /\ chip.last_command \in {MIFARE_AUTH_A, MIFARE_AUTH_B}
        /\ chip.last_sector = chip.command_data[3] \div MIFARE_CLASSIC_BLOCKS_PER_SECTOR

\* C3 (as claimed): once the acknowledgement of an accepted frame with an
\* unsupported opcode has been drained, no response is pending and reads return
\* the idle byte 0x01, until another frame is accepted.
C3_UnsupportedOpcodeQueuesNoResponse ==
    (acc_cmd >= 0 /\ acc_cmd \notin SupportedCommands /\ ~chip.waiting_for_ack) =>
        /\ ~chip.waiting_for_response
        /\ (last.ev = "read" /\ acc_reads > PN532_ACK_PACKET_SIZE) => last.byte = READY_BYTE

\* C4 (as claimed): once a response frame has started (sequence index > 0), every
\* bus read returns a byte of that frame, the index goes up by one per read and
\* returns to 0 only with the postamble, and the queued payload does not change.
C4_ResponseFrameUninterrupted ==
    [][response_index > 0 =>
          /\ chip'.response_data = chip.response_data
          /\ chip'.response_length = chip.response_length
          /\ last'.ev = "read" =>
                /\ last'.kind = "response"
                /\ \/ response_index' = response_index + 1
                   \/ /\ response_index' = 0
                      /\ response_index = 7 + chip.response_length
                      /\ last'.byte = PN532_POSTAMBLE
          /\ last'.ev # "read" => response_index' = response_index]_vars

\* C5 (as claimed): no frame is accepted while an acknowledgement or a response
\* is pending: a write in that period changes neither the stored command, payload
\* and length, nor re-arms the acknowledgement or the delay.
C5_NoAcceptanceWhileBusy ==
    [][(chip.waiting_for_ack \/ chip.waiting_for_response) => ~last'.accepted]_vars

\* what a processed command can change: the queued response, the session's
\* authentication record and the cards' memory
CommandEffects(c) ==
    <<c.response_data, c.response_length, c.last_command, c.last_sector, c.last_block,
      c.cards[0].memory, c.cards[1].memory>>

C7_SixAckBytesAfterAcceptance ==
    (last.ev = "read" /\ acc_cmd >= 0 /\ acc_reads \in 1..PN532_ACK_PACKET_SIZE) =>
        /\ last.kind = "ack"
        /\ last.byte = PN532_ACK_PACKET[acc_reads]

\* C8: at most one card is PRESENT, active_card_index is i exactly when card i
\* is PRESENT, and it is -1 exactly when both cards are ABSENT.
C8_OneCardPresent ==
    /\ ~(chip.cards[0].state = CARD_STATE_PRESENT /\ chip.cards[1].state = CARD_STATE_PRESENT)
    /\ \A i \in 0..(MAX_VIRTUAL_CARDS - 1) :
          (chip.active_card_index = i) <=> (chip.cards[i].state = CARD_STATE_PRESENT)
    /\ (chip.active_card_index = -1) <=> BothAbsent(chip)
    /\ chip.active_card_index \in -1..(MAX_VIRTUAL_CARDS - 1)

\* card 2 is in the field after a read, and a command has been processed for it
C8_Witness ==
    /\ last.ev = "read"
    /\ chip.cards[1].state = CARD_STATE_PRESENT
    /\ chip.cards[0].state = CARD_STATE_ABSENT
    /\ chip.waiting_for_response
    /\ chip.response_length > 2

InListRepliesNoTarget ==
    (last.processed /\ chip.command = PN532_COMMAND_INLISTPASSIVETARGET) =>
        /\ chip.response_length = 2
        /\ chip.response_data[0] = PN532_RESPONSE_INLISTPASSIVETARGET
        /\ chip.response_data[1] = 0

\* C9 (as claimed): after a bus read that samples the reset trigger as set, and
\* until a later read samples a card-present trigger, both cards are ABSENT,
\* active_card_index is -1 and InListPassiveTarget replies target-count 0.
C9_ResetClearsField ==
    field_reset # "no" =>
        /\ BothAbsent(chip)
        /\ chip.active_card_index = -1
        /\ InListRepliesNoTarget

\* C9 (amended): the same, for a read that samples the reset trigger as set and
\* both card-present triggers as clear.
C9_ResetAloneClearsField ==
    field_reset = "clean" =>
        /\ BothAbsent(chip)
        /\ chip.active_card_index = -1
        /\ InListRepliesNoTarget

\* InListPassiveTarget has been processed after a reset of a field that held a card
C9_Witness ==
    /\ field_reset = "clean"
    /\ last.processed
    /\ chip.command = PN532_COMMAND_INLISTPASSIVETARGET
    /\ chip.response_data[1] = 0

\* the response frame on the wire for the payload queued in c
ResponseFrame(c) ==
    LET p == [i \in 1..c.response_length |-> c.response_data[i - 1]]
        len == Len(p) + 1
    IN <<0, 0, 255, len, (256 - len) % 256, 213>>
       \o p
       \o <<(256 - ((213 + Sum(p)) % 256)) % 256, 0>>

IsPrefix(s, t) == Len(s) <= Len(t) /\ s = SubSeq(t, 1, Len(s))

\* C10 (as claimed): the bytes returned by the bus reads that follow the queueing
\* of a response payload p are, in order, 00 00 FF, |p|+1, -(|p|+1), D5, p,
\* -(D5 + sum p), 00, and p starts with the request opcode + 1.
C10_ResponseFrameOnTheWire ==
    chip.waiting_for_response =>
        /\ IsPrefix(tx_log, ResponseFrame(chip))
        /\ chip.response_data[0] = chip.command + 1

\* a bus read returns a byte of the response frame, and every byte of the frame
\* so far is in tx_log (the frame was queued with the sequence index at 0)
FrameReadFromStart ==
    /\ last'.ev = "read"
    /\ last'.kind = "response"
    /\ Len(tx_log) = response_index

\* C11 (as claimed): from the preamble through the postamble a response frame is
\* exactly 7 + payloadLength bytes (Length byte = payloadLength + 1), and after
\* that many reads the transmitter is idle.
C11_FrameIsSevenPlusPayload ==
    [][FrameReadFromStart =>
          (~chip'.waiting_for_response <=> Len(tx_log') = 7 + chip.response_length)]_vars

\* C11 (amended): the frame is exactly 8 + payloadLength bytes: the read at
\* sequence index 7 + payloadLength returns the postamble, and that read and no
\* earlier one makes the transmitter idle with the sequence index back at 0.
C11_FrameIsEightPlusPayload ==
    [][FrameReadFromStart =>
          /\ (~chip'.waiting_for_response <=> Len(tx_log') = 8 + chip.response_length)
          /\ ~chip'.waiting_for_response =>
                /\ response_index = 7 + chip.response_length
                /\ response_index' = 0
                /\ last'.byte = PN532_POSTAMBLE
          /\ chip'.waiting_for_response => response_index' = response_index + 1]_vars

\* the postamble of a Read response (18 payload bytes) has just gone out
C11_Witness ==
    /\ last.ev = "read"
    /\ last.kind = "response"
    /\ ~chip.waiting_for_response
    /\ response_index = 0
    /\ chip.response_length = 2 + MIFARE_CLASSIC_BLOCK_SIZE
    /\ Len(tx_log) = 8 + chip.response_length
    /\ tx_log = ResponseFrame(chip)

\* the block a Read, Write or Authenticate sub-command names, and its sector
BlockOf(c) == c.command_data[3]
SectorOf(c) == BlockOf(c) \div MIFARE_CLASSIC_BLOCKS_PER_SECTOR

\* c has just processed a Read sub-command for the card in the field
ReadProcessed(c) ==
    /\ c.command = PN532_COMMAND_INDATAEXCHANGE
    /\ CardInField(c)
    /\ c.command_data[2] = PN532_COMMAND_MIFARE_READ

\* the queued response is status 0x00 followed by the 16 bytes of the block
RepliesBlock(c) ==
    /\ c.response_length = 2 + MIFARE_CLASSIC_BLOCK_SIZE
    /\ c.response_data[0] = PN532_RESPONSE_INDATAEXCHANGE
    /\ c.response_data[1] = 0
    /\ \A i \in 0..(MIFARE_CLASSIC_BLOCK_SIZE - 1) :
          c.response_data[2 + i] =
             c.cards[c.active_card_index].memory[BlockOf(c) * MIFARE_CLASSIC_BLOCK_SIZE + i]

RepliesStatus(c, status) ==
    /\ c.response_length = 2
    /\ c.response_data[0] = PN532_RESPONSE_INDATAEXCHANGE
    /\ c.response_data[1] = status

\* C12: an Authenticate sub-command for block b with a card PRESENT records
\* sector b / 4 and the key kind whatever the key comparison yields; after an
\* authentication on sector s that replied 0x01 a Read of a block of s replies
\* 0x00 and the block's 16 bytes, and a Read of a block of the sector
\* authenticated before (with 0x00) replies 0x01.
C12_FailedAuthMovesSession ==
    [][last'.processed =>
          /\ AuthProcessed(chip') =>
                /\ chip'.last_sector = SectorOf(chip')
                /\ chip'.last_command = chip'.command_data[2]
                /\ chip'.response_data[1] \in {0, 1}
          /\ (ReadProcessed(chip') /\ auth_hist # <<>> /\ auth_hist[1].status = 1) =>
                /\ SectorOf(chip') = auth_hist[1].sector => RepliesBlock(chip')
                /\ (/\ Len(auth_hist) = 2
                    /\ auth_hist[2].status = 0
                    /\ auth_hist[2].sector # auth_hist[1].sector
                    /\ SectorOf(chip') = auth_hist[2].sector) => RepliesStatus(chip', 1)]_vars

\* a Read of sector 0 has been refused after sector 0 was authenticated and an
\* authentication on sector 1 failed
C12_Witness ==
    /\ last.processed
    /\ ReadProcessed(chip)
    /\ Len(auth_hist) = 2
    /\ auth_hist[1] = [sector |-> 1, status |-> 1]
    /\ auth_hist[2] = [sector |-> 0, status |-> 0]
    /\ SectorOf(chip) = 0
    /\ RepliesStatus(chip, 1)

\* the command c is about to process is answered with a logical error: an
\* InDataExchange with no card PRESENT, a Read or Write of a sector other than
\* last_sector, an unsupported sub-command, or an InListPassiveTarget with a
\* non-zero baud-rate indicator
LogicalError(c) ==
    \/ /\ c.command = PN532_COMMAND_INDATAEXCHANGE
       /\ \/ ~CardInField(c)
          \/ /\ c.command_data[2] \in {PN532_COMMAND_MIFARE_READ, PN532_COMMAND_MIFARE_WRITE}
             /\ SectorOf(c) # c.last_sector
          \/ c.command_data[2] \notin {PN532_COMMAND_MIFARE_READ, PN532_COMMAND_MIFARE_WRITE,
                                        MIFARE_AUTH_A, MIFARE_AUTH_B}
    \/ /\ c.command = PN532_COMMAND_INLISTPASSIVETARGET
       /\ c.command_data[2] # 0

\* the frame passes the checks a receiver of PN532 frames makes: start code,
\* length checksum, TFI, data checksum, postamble
WellFormedFrame(f, tfi) ==
    /\ Len(f) >= 8
    /\ SubSeq(f, 1, 3) = <<PN532_PREAMBLE, PN532_STARTCODE1, PN532_STARTCODE2>>
    /\ Len(f) = f[4] + 7
    /\ U8(f[4] + f[5]) = 0
    /\ f[6] = tfi
    /\ U8(Sum(SubSeq(f, 6, Len(f) - 1))) = 0
    /\ f[Len(f)] = PN532_POSTAMBLE

\* the fields of c the card triggers of a bus read can change
Field(c) == <<c.cards[0].state, c.cards[1].state, c.active_card_index>>

FrameRejected ==
    /\ last'.ev = "write"
    /\ frame_state # 0
    /\ frame_state' = 0
    /\ ~last'.accepted

\* C14 (as claimed): a rejected byte sequence puts the parser back in
\* WaitPreamble, queues no acknowledgement and no response, and leaves the
\* stored command opcode, payload and length as they were before its first byte
\* arrived, so that a frame accepted before and not yet processed is processed
\* with its own opcode.
C14_RejectedFrameLeavesNoRecord ==
    [][/\ FrameRejected =>
             /\ chip'.waiting_for_ack = chip.waiting_for_ack
             /\ chip'.waiting_for_response = chip.waiting_for_response
             /\ chip'.response_data = chip.response_data
             /\ chip'.response_length = chip.response_length
             /\ <<chip'.command, chip'.command_data, chip'.command_length>> = rx_saved
       /\ (last'.processed /\ frame_state = 0) => chip'.command = acc_cmd]_vars

HostDone == host.cur = <<>> /\ host.todo = <<>>

\* C15 (as claimed): garbage bytes of any value written in front of a complete
\* valid frame, with the parser in WaitPreamble, are discarded and the frame is
\* received: no frame is accepted before the last byte of the valid frame, and
\* once the host has written it, that frame has been accepted with its opcode
\* and payload.
C15_GarbageThenFrameIsReceived ==
    /\ last.accepted => HostDone
    /\ HostDone =>
          /\ acc_cmd = PN532_COMMAND_INLISTPASSIVETARGET
          /\ chip.command_length = 3
          /\ <<chip.command_data[0], chip.command_data[1], chip.command_data[2]>>
                = <<PN532_COMMAND_INLISTPASSIVETARGET, 1, 0>>

\* the response payload queued in c
ResponsePayload(c) == [i \in 1..c.response_length |-> c.response_data[i - 1]]

\* the cards that are PRESENT
PresentCards(c) == {i \in 0..(MAX_VIRTUAL_CARDS - 1) : c.cards[i].state = CARD_STATE_PRESENT}

\* C16: InListPassiveTarget replies target-count 1 exactly when a card is
\* PRESENT and the baud-rate indicator is 0, and then the payload is 4B 01 01 00
\* 04 04, the UID of the PRESENT card (DE AD BE EF for card 1, CA FE BA BE for
\* card 2) and 08; in every other case the payload is 4B 00.
C16_InListReportsPresentCard ==
    (last.processed /\ chip.command = PN532_COMMAND_INLISTPASSIVETARGET) =>
        IF PresentCards(chip) # {} /\ chip.command_data[2] = 0
        THEN \E i \in PresentCards(chip) :
                /\ PresentCards(chip) = {i}
                /\ ResponsePayload(chip) =
                      <<75, 1, 1, 0, 4, 4>>
                        \o (IF i = 0 THEN <<222, 173, 190, 239>> ELSE <<202, 254, 186, 190>>)
                        \o <<8>>
        ELSE ResponsePayload(chip) = <<75, 0>>

\* card 2 has been reported
C16_Witness ==
    /\ last.processed
    /\ chip.command = PN532_COMMAND_INLISTPASSIVETARGET
    /\ chip.cards[1].state = CARD_STATE_PRESENT
    /\ chip.response_length = 11
    /\ chip.response_data[1] = 1
    /\ chip.response_data[6] = 202

\* the six key bytes of the Authenticate sub-command c holds equal the bytes
\* stored in memory mem at the trailer of the sector it names, offsets 0..5 for
\* key A and 10..15 for key B
KeyMatches(c, mem) ==
    LET trailer == (SectorOf(c) * 4 + 3) * 16
        first == IF c.command_data[2] = MIFARE_AUTH_A THEN 0 ELSE 10
    IN /\ SectorOf(c) \in 0..15
       /\ \A i \in 0..5 : c.command_data[4 + i] = mem[trailer + first + i]

\* C17: an Authenticate sub-command replies 0x00 exactly when its sector is in
\* 0..15 and its six key bytes equal the bytes now stored in the PRESENT
\* card's sector trailer (offsets 0..5 for key A, 10..15 for key B), and 0x01
\* otherwise; the check changes no card memory.  With the initial memory the
\* key FF x 6 succeeds on sector 0, and a Read of block 0 that follows replies
\* 0x00 and 16 bytes that start with the card's UID.
C17_AuthComparesStoredKey ==
    [][last'.processed =>
          /\ AuthProcessed(chip') =>
                LET mem == chip.cards[chip'.active_card_index].memory IN
                /\ RepliesStatus(chip', IF KeyMatches(chip', mem) THEN 0 ELSE 1)
                /\ \A i \in 0..(MAX_VIRTUAL_CARDS - 1) :
                      chip'.cards[i].memory = chip.cards[i].memory
                /\ (/\ mem = InitialMemory(chip'.active_card_index + 1)
                    /\ SectorOf(chip') = 0
                    /\ \A i \in 0..5 : chip'.command_data[4 + i] = 255)
                      => RepliesStatus(chip', 0)
          /\ (/\ ReadProcessed(chip')
              /\ BlockOf(chip') = 0
              /\ auth_hist # <<>>
              /\ auth_hist[1] = [sector |-> 0, status |-> 0]) =>
                /\ RepliesBlock(chip')
                /\ chip.cards[chip'.active_card_index].memory
                       = InitialMemory(chip'.active_card_index + 1)
                     => \A i \in 0..3 :
                           chip'.response_data[2 + i] =
                              CardUid(chip'.active_card_index + 1)[i + 1]]_vars

\* key B of a trailer written in this session has been accepted
C17_Witness ==
    /\ last.processed
    /\ AuthProcessed(chip)
    /\ chip.command_data[2] = MIFARE_AUTH_B
    /\ RepliesStatus(chip, 0)
    /\ chip.cards[chip.active_card_index].memory[3 * MIFARE_CLASSIC_BLOCK_SIZE + 10] = 11
    /\ chip.command_data[4] = 11

\* the command just processed is a Read or Write answered with status 0x00,
\* the status of the branch that accesses the card's memory
MemoryAccessed(c) ==
    /\ c.command = PN532_COMMAND_INDATAEXCHANGE
    /\ c.command_data[2] \in {PN532_COMMAND_MIFARE_READ, PN532_COMMAND_MIFARE_WRITE}
    /\ c.response_data[0] = PN532_RESPONSE_INDATAEXCHANGE
    /\ c.response_data[1] = 0

\* C18 (as claimed): a Read or Write that passes the sector gate accesses the
\* 16 bytes at block * 16 inside the 1024 bytes of the PRESENT card's memory
\* only, so the block number is in 0..63 whenever memory is accessed; a Write
\* changes nothing outside that card's memory: not the other card's presence,
\* UID or memory, not active_card_index, not the session fields.
C18_AccessStaysInsideCardMemory ==
    [][(last'.processed /\ MemoryAccessed(chip')) =>
          /\ BlockOf(chip') \in 0..(MIFARE_1K_SIZE \div MIFARE_CLASSIC_BLOCK_SIZE - 1)
          /\ chip'.command_data[2] = PN532_COMMAND_MIFARE_WRITE =>
                /\ \E card1_state \in BOOLEAN, card2_state \in BOOLEAN, reset_state \in BOOLEAN :
                      LET u == UpdateCards(chip, card1_state, card2_state, reset_state) IN
                      /\ Field(chip') = Field(u)
                      /\ \A i \in 0..(MAX_VIRTUAL_CARDS - 1) :
                            i # u.active_card_index =>
                               chip'.cards[i].memory = chip.cards[i].memory
                /\ \A i \in 0..(MAX_VIRTUAL_CARDS - 1) :
                      /\ chip'.cards[i].uid = chip.cards[i].uid
                      /\ chip'.cards[i].uid_length = chip.cards[i].uid_length
                      /\ chip'.cards[i].card_type = chip.cards[i].card_type
                /\ chip'.last_command = chip.last_command
                /\ chip'.last_sector = chip.last_sector
                /\ chip'.last_block = chip.last_block]_vars

\* the bus write just made stored its byte through command_data[frame_data_index]
PayloadByteStored ==
    /\ last'.ev = "write"
    /\ frame_state = 7
    /\ frame_data_index < frame_length - 1

\* C19 (as claimed): for every length byte L with a matching length checksum
\* the parser stores command and payload bytes at indices 0..63 of command_data
\* only, and the command_length recorded for an accepted frame is L - 1 and in
\* 1..64.
C19_CommandBufferAndLengthInRange ==
    [][/\ PayloadByteStored => frame_data_index \in 0..(COMMAND_DATA_SIZE - 1)
       /\ last'.accepted =>
             /\ chip'.command_length = frame_length - 1
             /\ chip'.command_length \in 1..COMMAND_DATA_SIZE]_vars

\* C20 (as claimed): from every reachable state with a response pending and no
\* acknowledgement pending, if the host only reads from then on (it has nothing
\* left to write), the postamble goes out after finitely many reads and the
\* transmitter is idle, with the sequence index back at 0.
C20_PendingResponseIsDelivered ==
    (HostDone /\ chip.waiting_for_response /\ ~chip.waiting_for_ack)
        ~> (~chip.waiting_for_response /\ response_index = 0)

\* c has just processed a Write sub-command for the card in the field
WriteProcessed(c) ==
    /\ c.command = PN532_COMMAND_INDATAEXCHANGE
    /\ CardInField(c)
    /\ c.command_data[2] = PN532_COMMAND_MIFARE_WRITE

\* C21: the card-present triggers and the reset trigger of a bus read leave
\* last_sector, last_command (the key kind) and both cards' memory as they were
\* (they change in a bus read only as the Authenticate or Write it processes
\* changes them); once an Authenticate has been processed, a Read with a card
\* PRESENT replies 0x00 and the 16 bytes of the block in the memory of the card
\* now PRESENT when its sector is the sector of the most recently processed
\* Authenticate, whichever card was PRESENT then, and 0x01 otherwise; a Write
\* passes the same gate and stores its 16 bytes in the card now PRESENT only.
C21_TriggersKeepSession ==
    [][last'.ev = "read" =>
          /\ ~(last'.processed /\ AuthProcessed(chip')) =>
                /\ chip'.last_sector = chip.last_sector
                /\ chip'.last_command = chip.last_command
          /\ ~(last'.processed /\ WriteProcessed(chip')) =>
                \A i \in 0..(MAX_VIRTUAL_CARDS - 1) :
                    chip'.cards[i].memory = chip.cards[i].memory
          /\ (last'.processed /\ ReadProcessed(chip') /\ auth_hist # <<>>) =>
                IF SectorOf(chip') = auth_hist[1].sector
                THEN /\ RepliesBlock(chip')
                     /\ \A i \in 0..(MIFARE_CLASSIC_BLOCK_SIZE - 1) :
                           chip'.response_data[2 + i] =
                              chip.cards[chip'.active_card_index]
                                  .memory[BlockOf(chip') * MIFARE_CLASSIC_BLOCK_SIZE + i]
                ELSE RepliesStatus(chip', 1)
          /\ (last'.processed /\ WriteProcessed(chip') /\ auth_hist # <<>>) =>
                LET a == chip'.active_card_index
                    block_offset == BlockOf(chip') * MIFARE_CLASSIC_BLOCK_SIZE
                IN IF SectorOf(chip') = auth_hist[1].sector
                   THEN /\ RepliesStatus(chip', 0)
                        /\ chip'.cards[1 - a].memory = chip.cards[1 - a].memory
                        /\ chip'.cards[a].memory =
                              [o \in 0..(MIFARE_1K_SIZE - 1) |->
                                  IF o \in block_offset..(block_offset + MIFARE_CLASSIC_BLOCK_SIZE - 1)
                                  THEN chip'.command_data[4 + o - block_offset]
                                  ELSE chip.cards[a].memory[o]]
                   ELSE /\ RepliesStatus(chip', 1)
                        /\ \A i \in 0..(MAX_VIRTUAL_CARDS - 1) :
                              chip'.cards[i].memory = chip.cards[i].memory]_vars

\* sector 0 was authenticated with one card PRESENT, and a Read of block 0 has
\* been answered with the UID block of the other card, now PRESENT
C21_Witness ==
    /\ last.processed
    /\ ReadProcessed(chip)
    /\ auth_hist # <<>>
    /\ auth_hist[1] = [sector |-> 0, status |-> 0]
    /\ auth_card.card \in 0..(MAX_VIRTUAL_CARDS - 1)
    /\ chip.active_card_index = 1 - auth_card.card
    /\ BlockOf(chip) = 0
    /\ RepliesBlock(chip)
    /\ \A i \in 0..3 : chip.response_data[2 + i] = CardUid(chip.active_card_index + 1)[i + 1]
    /\ chip.response_data[2] # chip.cards[auth_card.card].memory[0]

====
